---- MODULE Spec2Model ----
(***************************************************************************)
(* Travel planning system: the planner implementations                     *)
(*   SimpleA2ATravelPlanner.stream        (simple_a2a_agent.py),           *)
(*   SimpleTravelPlanner.plan_trip        (simple_travel_planner.py),      *)
(*   AGUITravelServer.plan_trip           (ag_ui_travel_server.py),        *)
(*   TravelPlannerAgent.create/send_message (travel_planner/agent.py)      *)
(* as one state machine.  A behaviour follows one process; impl says which *)
(* of the four programs that process runs.  The capability peers, the      *)
(* planner service called by the front door and the LLM are the            *)
(* environment: every reply they can give is an input chosen with \E.      *)
(***************************************************************************)
EXTENDS Integers, Sequences, FiniteSets, TLC

\* ---------------------------------------------------------------- bounds
\* planning operations served by one process in one behaviour
MaxOps == 2
\* characters of a message text, parts of an envelope
MaxLen == 2
MaxParts == 2
\* requests a service has in progress at once, chunks of one stream
MaxReqs == 2
MaxChunks == 2
\* characters of a snippet, results of one search
MaxSnippet == 3
MaxResults == 2

\* ------------------------------------------------------------- constants
Peers == {"hotel", "car"}
Agents == {"planner", "hotel", "car"}
Impls == {"a2a", "simple", "frontdoor", "adk"}
\* the capability peer: its /a2a/message handler and its process_request
PeerImpls == {"handler", "capability", "search", "car_agent"}

Other(p) == IF p = "hotel" THEN "car" ELSE "hotel"

\* Outcomes of the GET probe (/.well-known/agent.json or /health).
ProbeOutcomes == {"ok", "badjson", "non200", "refused", "timeout"}

\* Outcomes of one POST to a capability peer, by what comes back:
\*   ok         200, well-formed body with non-empty content
\*   empty      200, well-formed body whose content is the empty string
\*   noresult   200, JSON object without the result / response key
\*   null       200, JSON body null (not an object)
\*   resultnull 200, JSON object whose result / response value is null
\*   notjson    200, body that is not JSON
\*   string     200, JSON body that is a string (a text holding neither the
\*              word error nor the word result)
\*   respvalue  200, JSON object {"response": v}, v a text or an object
\*              without the content key
\*   http500    non-200 status
\*   refused    connection refused
\*   timeout    no reply within the timeout of the POST
Replies == {"ok", "empty", "noresult", "null", "resultnull", "notjson",
            "string", "respvalue", "http500", "refused", "timeout"}

\* Outcomes of POST /plan to the planner service (front door).
PlannerReplies == {"ok", "badbody", "http500", "refused", "timeout"}

\* Outcomes of one LLM invocation: a text, or one of two exceptions.
LLMErrors == {"llm_timeout", "llm_auth"}
LLMOutcomes == {"ok"} \cup LLMErrors

Content(p) == IF p = "hotel" THEN "hotel_content" ELSE "car_content"

\* Python values returned by send_a2a_message, as far as stream inspects
\* them: t is the JSON type, error says whether the key "error" is present,
\* result is what sits under result.content.
RespNone == [t |-> "unset", error |-> FALSE, result |-> "absent"]
RespError == [t |-> "dict", error |-> TRUE, result |-> "absent"]
RespDict(r) == [t |-> "dict", error |-> FALSE, result |-> r]
RespNull == [t |-> "null", error |-> FALSE, result |-> "absent"]

NoPlan == [kind |-> "none"]

VARIABLES
    impl,           \* which program this process runs
    groq_key,       \* GROQ_API_KEY present in the environment
    pc,             \* position of the running operation
    exc,            \* exception that escaped the operation, or "none"
    opCount,        \* operations started so far
    car_needed,     \* TravelRequest.car_needed of the running operation
    agent_status,   \* result of check_agent_status, per agent
    inflight,       \* POSTs sent and not yet settled
    sends,          \* calls of the send routine in the running operation
    posts,          \* HTTP POSTs issued in the running operation, per agent
    endpoint,       \* path the running operation posted to, per agent
    envelope,       \* ids of the envelope last sent to each peer
    car_contacts,   \* requests made to the car agent for the running operation
    now,            \* clock second, counted from the start of the operation
    uuid,           \* uuid.uuid4() values drawn so far
    reply,          \* how each POST of the running operation settled
    resp,           \* hotel_response / car_response of stream
    answer,         \* hotel/car text held by plan_trip or the front door
    destination,    \* result of extract_destination
    narrative,      \* outcome of the LLM call that writes the plan
    plan_prompt,    \* hotel/car text interpolated into plan_prompt
    result,         \* front door: dict returned by the coordination step
    plan,           \* the value the operation returns
    log,            \* agent_communication_log.json: its communications
    total_requests,      \* AGUITravelServer.total_requests
    successful_requests, \* AGUITravelServer.successful_requests
    request_history,     \* AGUITravelServer.request_history (success flags)
    active_requests,     \* AGUITravelServer.active_requests (request ids)
    failNarratives, \* every narrative returned after a failed LLM call
    remote_agent_connections, \* TravelPlannerAgent: keys of the dict
    cards,          \* TravelPlannerAgent.cards: keys of the dict
    discovery,      \* outcome of the card fetch per configured address
    adk_target,     \* agent_name of the running send_message
    peer_agent,     \* capability agent serving the request: hotel or car
    request,        \* JSON body posted to /a2a/message
    sent,           \* what send_a2a_message put into that body, if it sent it
    decoded,        \* request.message after validation
    http_status,    \* status of the peer's HTTP response
    message_text,   \* text handed to process_request by the handler
    invoked,        \* calls of process_request made by the handler
    response_id,    \* id field of the A2AMessageResponse
    llm_output,     \* response.content of the extraction call
    extracted_info, \* process_request: the parsed extraction
    search_called,  \* process_request reached the search call
    search_args,    \* arguments of that search call
    search_outcome, \* how that search call ended
    searches,       \* search calls made by process_request
    cap_response,   \* value returned by process_request
    hook,           \* startup hook of the service: pending, done, failed, off
    travel_planner, \* the executor's global travel_planner
    constructed,    \* planner objects constructed in this process
    replaced,       \* the global was assigned while it held a planner
    rpc,            \* position of each request's handler
    overlap,        \* requests in progress at the same time as each request
    read_from,      \* requests whose writes each request's handler has read
    mine,           \* planner object each request's handler works with
    sessions,       \* sessions in the session service, with their creator
    events,         \* what run_async yields for a request, as chunks
    chunks,         \* chunks the stream yielded to each request's handler
    served,         \* response each request's handler returned
    comm_log,       \* agent_communication_log.json, entries with their writer
    organic,        \* data["organic"] of the search reply
    estimates,      \* estimated_cost_usd of the results of search_hotels
    structured_response, \* current_state.values.get("structured_response")
    agent_response  \* value returned by get_agent_response

vars == <<impl, groq_key, pc, exc, opCount, car_needed, agent_status,
          inflight, sends, reply, resp, answer, destination, narrative,
          plan_prompt, result, plan, log, total_requests,
          successful_requests, request_history, active_requests,
          failNarratives, remote_agent_connections, cards, discovery,
          adk_target, posts, endpoint, envelope, car_contacts, now, uuid,
          peer_agent,
          request, sent, decoded, http_status, message_text, invoked,
          response_id, llm_output, extracted_info, search_called,
          search_args, search_outcome, searches, cap_response, hook,
          travel_planner, constructed, replaced, rpc, overlap, read_from,
          mine, sessions, events, chunks, served, comm_log, organic,
          estimates, structured_response, agent_response>>

opLocal == <<car_needed, agent_status, inflight, sends, reply, resp,
             answer, destination, narrative, plan_prompt, result, plan,
             posts, endpoint, envelope>>
clockVars == <<now, uuid>>
wireVars == <<posts, endpoint, envelope, now, uuid>>
handlerVars == <<request, sent, decoded, http_status, message_text, invoked,
                 response_id>>
capVars == <<llm_output, extracted_info, search_called, search_args,
             search_outcome, searches, cap_response>>
searchVars == <<organic, estimates, structured_response, agent_response>>
peerVars == <<peer_agent, handlerVars, capVars, searchVars>>
fdStats == <<total_requests, successful_requests, request_history,
             active_requests>>
adkVars == <<remote_agent_connections, cards, discovery, adk_target>>
plannerVars == <<groq_key, exc, opCount, opLocal, log, fdStats,
                 failNarratives, adkVars, clockVars, car_contacts>>
globalVars == <<hook, travel_planner, constructed, replaced, events>>
reqVars == <<rpc, overlap, read_from, mine, chunks, served>>
serveVars == <<globalVars, reqVars, sessions, comm_log>>

\* ------------------------------------------------- SimpleA2ATravelPlanner

\* check_agent_status: status becomes "active" as soon as the GET returns
\* 200 (the assignment precedes response.json()); every exception is caught
\* and leaves "unknown".
A2AProbeStatus(o) == IF o \in {"ok", "badjson"} THEN "active" ELSE "unknown"

\* Variant: the except branch returns an empty dict for a timeout.
send_a2a_message_SwallowsTimeout(r) ==
    CASE r = "ok" -> RespDict("text")
      [] r = "empty" -> RespDict("empty")
      [] r = "noresult" -> RespDict("absent")
      [] r = "null" -> RespNull
      [] r = "resultnull" -> RespDict("null")
      [] r \in {"string", "respvalue"} -> RespDict("absent")
      [] r = "timeout" -> RespDict("absent")
      [] OTHER -> RespError

\* send_a2a_message: the value returned for each outcome of the POST.
\* Everything inside the try is caught, a non-200 status gives an error
\* dict, a 200 gives response.json() whatever JSON value that is.  The
\* tests stream makes on the value ("error" not in v, "result" in v) come
\* out for the string as they do for an object without these keys.
send_a2a_message(r) ==
    CASE r = "ok" -> RespDict("text")
      [] r = "empty" -> RespDict("empty")
      [] r = "noresult" -> RespDict("absent")
      [] r = "null" -> RespNull
      [] r = "resultnull" -> RespDict("null")
      [] r \in {"string", "respvalue"} -> RespDict("absent")
      [] OTHER -> RespError

\* The expression  "error" not in response  : TypeError on None.
ErrorNotIn(v) ==
    IF v.t = "null" THEN "TypeError"
    ELSE IF v.error THEN "false" ELSE "true"

\* status argument of log_agent_communication (stream, lines 173 and 191).
LogStatus(v) ==
    CASE ErrorNotIn(v) = "TypeError" -> "TypeError"
      [] ErrorNotIn(v) = "true" -> "success"
      [] OTHER -> "error"

\* stream lines 204-210: the content taken from a response.  A falsy
\* response (None) skips the block; "content" in None raises TypeError.
ExtractContent(v, p) ==
    IF v.t = "null" THEN ""
    ELSE IF v.error THEN ""
    ELSE CASE v.result = "text" -> Content(p)
           [] v.result = "null" -> "TypeError"
           [] OTHER -> ""

A2APlaceholder(p) ==
    IF p = "hotel"
    THEN "*Hotel agent communication failed or no content available*"
    ELSE "*Car rental agent communication failed or no content available*"

\* stream lines 222 and 225: the section shown for a peer.
A2ASection(c, p) == IF c # "" THEN c ELSE A2APlaceholder(p)

\* Variant: the status line follows the outcome of the send.
A2AStatusLine_FromSend(st, v) == IF v.error THEN "unreachable" ELSE st

\* stream lines 229-230: the status line shown for a peer comes from
\* check_agent_status, not from the send.
A2AStatusLine(st, v) == st

\* Variant: the hotel call is started as a task and not awaited.
AwaitPoint_HotelNotAwaited(p) ==
    IF p = "hotel" THEN "contact_car" ELSE "await_car"

\* Variant: the car call is started as a task and not awaited.
AwaitPoint_CarNotAwaited(p) ==
    IF p = "hotel" THEN "await_hotel" ELSE "compose"

\* Position after issuing the POST to p: stream awaits it (lines 165, 183),
\* plan_trip and the front door block in requests.post.
AwaitPoint(p) == IF p = "hotel" THEN "await_hotel" ELSE "await_car"

ContactPoint(p) == IF p = "hotel" THEN "contact_hotel" ELSE "contact_car"

\* Position after p's call has settled: the car is contacted after the
\* hotel call, the plan is compiled after the car call.
AfterSettle(p) == IF p = "hotel" THEN "contact_car" ELSE "compose"

ZeroSends == [a \in Agents |-> 0]
NoReply == [a \in Agents |-> "none"]
NoResp == [p \in Peers |-> RespNone]
NoAnswer == [p \in Peers |-> "unset"]
NoStatus == [a \in Agents |-> "unknown"]


Narr(prefix, detail) == [prefix |-> prefix, detail |-> detail]
NoNarr == Narr("", "")
AbsentStatus == [p \in Peers |-> "absent"]
NoPrompt == [hotel |-> "unset", car |-> "unset"]

MkPlan(kind, success, narr, h, c, st, err) ==
    [kind |-> kind, success |-> success, narrative |-> narr,
     hotel |-> h, car |-> c, status |-> st, error |-> err]

\* ---------------------------------------------------- SimpleTravelPlanner

\* check_agent_status (requests.get on /health, bare except).
SimpleProbeStatus(o) ==
    CASE o \in {"ok", "badjson"} -> "running"
      [] o = "non200" -> "not_responding"
      [] OTHER -> "not_reachable"

SimpleErrComm(p) ==
    IF p = "hotel" THEN "Error communicating with hotel agent: "
    ELSE "Error communicating with car rental agent: "

SimpleErrStatus(p) ==
    IF p = "hotel" THEN "Hotel agent error: " ELSE "Car rental agent error: "

\* ask_hotel_agent / ask_car_rental_agent: the string returned for each
\* outcome of the POST to /chat.  response.json()["response"]["content"]
\* is inside the try, so every malformed 200 body ends in the except.
ask_agent(p, r) ==
    CASE r = "ok" -> Content(p)
      [] r = "empty" -> ""
      [] r = "http500" -> SimpleErrStatus(p)
      [] OTHER -> SimpleErrComm(p)

\* The programs that serve a capability peer's address, and the 200 reply
\* each gives to POST /chat when its agent answered:
\*   a2a_hotel_executor.py / a2a_car_executor.py line 118 and
\*   simple_hotel_executor.py / simple_car_executor.py line 26 return the
\*   string process_request returned;
\*   hotel simple_executor.py line 25 returns {"response": text}, car
\*   app/simple_executor.py line 37 {"response": {status, results, message}}.
PeerExecutors == {"a2a_executor", "simple_agent_executor", "simple_executor"}
ChatReply(e) == IF e = "simple_executor" THEN "respvalue" ELSE "string"

\* a2a_message lines 92-105: the 200 reply to POST /a2a/message holds the
\* string process_request returned under result.content.
A2AMessageReply == "ok"

\* The replies a peer that is up and whose agent answered can give to a
\* send of planner i: stream posts to /a2a/message, plan_trip and the front
\* door post to /chat of whichever executor serves the address.
HealthyReplies(i) ==
    IF i = "a2a" THEN {A2AMessageReply}
    ELSE {ChatReply(e) : e \in PeerExecutors}

\* extract_destination: the LLM's answer, or "Paris" when the call raises.
extract_destination(o) == IF o = "ok" THEN "extracted" ELSE "Paris"

\* Variant: the except branch returns one fixed string.
SimpleNarrative_Fixed(o) ==
    IF o = "ok" THEN Narr("", "llm_text")
    ELSE Narr("Error creating travel plan: ", "")

\* plan_trip lines 180-184: the LLM's text, or the except branch's
\* f"Error creating travel plan: {e}".
SimpleNarrative(o) ==
    IF o = "ok" THEN Narr("", "llm_text")
    ELSE Narr("Error creating travel plan: ", o)

\* --------------------------------------------------------- AGUITravelServer

\* check_agent_status: "active" iff the GET on /health returned 200.
FDProbeStatus(o) == IF o \in {"ok", "badjson"} THEN "active" ELSE "offline"

DirectErr(p) ==
    IF p = "hotel" THEN "Hotel agent error: " ELSE "Car rental agent error: "

DirectDefault(p) ==
    IF p = "hotel" THEN "No hotel recommendations available"
    ELSE "No car rental options available"

\* direct_agent_communication lines 664-674 / 681-691: the new value of
\* result["hotel_recommendations"] / result["car_rental_options"], given
\* the value it had (the empty string) and the outcome of the POST.
\* A non-200 status leaves the field alone; .get on a non-dict raises
\* AttributeError, which the except turns into the error text.
direct_answer(p, r, old) ==
    CASE r \in {"ok", "respvalue"} -> Content(p)
      [] r = "empty" -> ""
      [] r = "noresult" -> DirectDefault(p)
      [] r = "resultnull" -> "None"
      [] r = "http500" -> old
      [] OTHER -> DirectErr(p)

\* direct_agent_communication lines 693-730.
DirectNarrative(o) ==
    IF o = "ok" THEN Narr("", "llm_text")
    ELSE Narr("Error generating travel plan: ", o)

\* Variant: the status code of the reply is not looked at.
coordinate_travel_planning_IgnoresStatus(r) ==
    CASE r \in {"ok", "http500"} ->
            MkPlan("result", TRUE, Narr("", "planner_plan"),
                   "Contacted hotel agent for recommendations",
                   "Contacted car rental agent for options",
                   AbsentStatus, "")
      [] OTHER ->
            MkPlan("result", FALSE, NoNarr, "", "", AbsentStatus,
                   "Travel planner communication error")

\* coordinate_travel_planning lines 634-652: the dict returned for each
\* outcome of POST /plan.  result.get on a non-dict body raises inside the
\* try.
coordinate_travel_planning(r) ==
    CASE r = "ok" ->
            MkPlan("result", TRUE, Narr("", "planner_plan"),
                   "Contacted hotel agent for recommendations",
                   "Contacted car rental agent for options",
                   AbsentStatus, "")
      [] r = "http500" ->
            MkPlan("result", FALSE, NoNarr, "", "", AbsentStatus,
                   "Travel planner error: 500")
      [] OTHER ->
            MkPlan("result", FALSE, NoNarr, "", "", AbsentStatus,
                   "Travel planner communication error")

\* What the planner service does with the car agent while it serves the
\* POST /plan that ended with r.  The body of that POST is {"message":
\* text} (line 636); stream (simple_a2a_agent.py lines 176-192) and
\* plan_trip (simple_travel_planner.py lines 150-153) contact the car agent
\* for every message, so a 200 with the plan means one car request was
\* made; a call that failed or timed out may have got that far or not.
PlannerCarSends(r) ==
    CASE r = "ok" -> {1}
      [] r = "refused" -> {0}
      [] OTHER -> {0, 1}

\* Variant: the planner is asked whatever its probe said.
UsePlanner_Always(st) == TRUE

\* plan_trip line 460: the planner is used iff its health probe said active.
UsePlanner(st) == st["planner"] = "active"

\* plan_trip lines 468-485: the UserResponse built from the result dict.
UserResponse(res) ==
    IF res.success
    THEN [res EXCEPT !.kind = "response"]
    ELSE MkPlan("response", FALSE, NoNarr, "", "", AbsentStatus, res.error)

\* ------------------------------------------------------ TravelPlannerAgent

\* name field of the card each configured address serves
\* (a2a_hotel_executor.py:60, a2a_car_executor.py:60).
CardName(p) == IF p = "hotel" THEN "Hotel Booking Agent" ELSE "Car Rental Agent"
AgentNames == {CardName(p) : p \in Peers}
PeerOf(n) == CHOOSE p \in Peers : CardName(p) = n

\* Outcomes of A2ACardResolver.get_agent_card for one address.
DiscoveryOutcomes == {"ok", "connect_error", "timeout", "non200", "malformed"}

\* Variant: only httpx.ConnectError is caught.
DiscoveryRaises_OnlyConnectError(o) == o \notin {"ok", "connect_error"}

\* _async_init_components lines 67-77: httpx.ConnectError and every other
\* Exception are caught; nothing escapes the loop.
DiscoveryRaises(o) == FALSE

\* _async_init_components lines 69-73: the connection and the card are
\* stored only when get_agent_card returned.
DiscoveryStores(o) == o = "ok"

\* Variant: the membership test is against the configured names.
KnownAgent_Configured(n, conns) == n \in AgentNames

\* send_message lines 193-194: a name without a connection is refused.
KnownAgent(n, conns) == n \in conns

\* Outcomes of client.send_message in send_message.
ADKReplies == {"task", "nonsuccess", "exception"}

\* ------------------------------------------------------- message envelopes

NoId == [kind |-> "none", n |-> 0]
NoEnvelope == [messageId |-> NoId, taskId |-> NoId, contextId |-> NoId]
NoEnvelopes == [p \in Peers |-> NoEnvelope]
NoEndpoint == [a \in Agents |-> "none"]

\* send_a2a_message lines 114-116: an id is a prefix followed by
\* datetime.now() formatted down to the second.
ClockId(prefix, t) == [kind |-> prefix, n |-> t]

\* The seconds the three datetime.now() calls of one send can read when the
\* first reads t: the clock may pass a second boundary between two of them.
ClockReads(t) == {<<t, t, t>>, <<t, t, t + 1>>, <<t, t + 1, t + 1>>}

\* send_a2a_message lines 114-123: the ids put into the payload.
A2AEnvelope(ts) ==
    [messageId |-> ClockId("msg", ts[1]),
     taskId |-> ClockId("task", ts[2]),
     contextId |-> ClockId("ctx", ts[3])]

\* str(uuid.uuid4()): the k-th value drawn; no two draws are equal.
UuidId(k) == [kind |-> "uuid", n |-> k]

\* tool_context.state: the session is created with state={} (agent.py line
\* 162) and nothing in the program writes task_id or context_id into it.
SessionState == [task_id |-> NoId, context_id |-> NoId]

\* state.get(key, default)
StateGet(key, default) ==
    IF SessionState[key] = NoId THEN default ELSE SessionState[key]

\* TravelPlannerAgent.send_message lines 201-213: the ids put into the
\* payload when u uuids have been drawn before; the defaults of both
\* state.get calls are evaluated, then the message id is drawn.
ADKEnvelope(u) ==
    [taskId |-> StateGet("task_id", UuidId(u + 1)),
     contextId |-> StateGet("context_id", UuidId(u + 2)),
     messageId |-> UuidId(u + 3)]

\* What the planner knows from its card fetch about peer p: stream's
\* check_agent_status, TravelPlannerAgent's discovery; plan_trip and the
\* front door fetch no card.
Discovered(i, st, conns, p) ==
    CASE i = "a2a" -> st[p] = "active"
      [] i = "adk" -> CardName(p) \in conns
      [] OTHER -> FALSE

\* Variant: a peer whose card fetch failed is sent the simple chat form.
MessageEndpoint_ByDiscovery(i, known) ==
    CASE i = "a2a" /\ known -> "/a2a/message"
      [] i = "adk" /\ known -> "A2AClient.send_message"
      [] OTHER -> "/chat"

\* The endpoint a send goes to: send_a2a_message line 132 posts the envelope
\* to /a2a/message, RemoteAgentConnections.send_message hands it to the
\* A2AClient, ask_*_agent (lines 95, 114) and direct_agent_communication
\* (lines 664, 681) post {"message": text} to /chat.  The result of the card
\* fetch is not looked at.
MessageEndpoint(i, known) ==
    CASE i = "a2a" -> "/a2a/message"
      [] i = "adk" -> "A2AClient.send_message"
      [] OTHER -> "/chat"

\* Variant: a POST that failed is issued once more.
Retry_OnFailure(r) == r \in {"timeout", "refused", "exception"}

\* The send routines contain one POST and no loop around it: whatever the
\* outcome r, the POST is not repeated.
Retry(r) == FALSE

\* POST counters after the call to a settled with outcome r.
PostsAfter(ps, a, r) == IF Retry(r) THEN [ps EXCEPT ![a] = @ + 1] ELSE ps

\* ------------------------------------------ capability peer: /a2a/message

\* A text is a sequence of characters; " " stands for whitespace.
Chars == {"x", " "}
Texts == UNION {[1..n -> Chars] : n \in 0..MaxLen}

\* Marks a part without a text field.
NoText == <<"absent">>

\* str.strip()
RECURSIVE LStrip(_)
LStrip(s) ==
    IF Len(s) = 0 THEN <<>>
    ELSE IF Head(s) = " " THEN LStrip(Tail(s)) ELSE s

RECURSIVE RStrip(_)
RStrip(s) ==
    IF Len(s) = 0 THEN <<>>
    ELSE IF s[Len(s)] = " " THEN RStrip(SubSeq(s, 1, Len(s) - 1)) ELSE s

strip(s) == RStrip(LStrip(s))

\* A part of a posted body: its type ("absent" when the key is missing)
\* and its text (NoText when the key is missing).
PartTypes == {"text", "data"}
BodyParts == [type : PartTypes \cup {"absent"}, text : Texts \cup {NoText}]
PartLists == UNION {[1..n -> BodyParts] : n \in 0..MaxParts}
TextPart(t) == [type |-> "text", text |-> t]

Roles == {"user", "agent"}

\* Keys of the body that A2AMessageRequest / A2AMessage declare without a
\* default (a2a_hotel_executor.py lines 26-34).
EnvelopeFields == {"message", "role", "parts", "messageId", "taskId",
                   "contextId"}

\* A posted JSON body; missing names the declared keys it lacks.
Body(missing, role, parts, env) ==
    [missing |-> missing, role |-> role, parts |-> parts,
     messageId |-> env.messageId, taskId |-> env.taskId,
     contextId |-> env.contextId]

NoRequest == Body({}, "none", <<>>, NoEnvelope)

\* send_a2a_message lines 118-131: the payload built for a message text.
send_a2a_payload(message, env) == Body({}, "user", <<TextPart(message)>>, env)

\* What the sender put into a payload.
Sent(text, env) ==
    [text |-> text, role |-> "user", messageId |-> env.messageId,
     taskId |-> env.taskId, contextId |-> env.contextId]
NoSent == [text |-> NoText, role |-> "none", messageId |-> NoId,
           taskId |-> NoId, contextId |-> NoId]

\* Bodies any client can post: every list of parts under a complete
\* envelope, and an envelope lacking one declared key.
Bodies ==
    {Body({}, r, ps, A2AEnvelope(<<0, 0, 0>>)) : r \in Roles, ps \in PartLists}
    \cup {Body({f}, "user", <<TextPart(<<"x">>)>>, A2AEnvelope(<<0, 0, 0>>)) :
             f \in EnvelopeFields}

\* Validation of the body against A2AMessageRequest (lines 22-34), done
\* before the handler runs: every key without a default must be present,
\* which includes the text of every part; parts may be an empty list.
Validates(b) ==
    /\ b.missing = {}
    /\ \A i \in DOMAIN b.parts : b.parts[i].text # NoText

\* request.message after validation: a missing part type takes its
\* default "text" (line 23).
A2AMessage(b) ==
    [role |-> b.role,
     parts |-> [i \in DOMAIN b.parts |->
                  [type |-> IF b.parts[i].type = "absent" THEN "text"
                            ELSE b.parts[i].type,
                   text |-> b.parts[i].text]],
     messageId |-> b.messageId, taskId |-> b.taskId,
     contextId |-> b.contextId]

NoMessage == [role |-> "none", parts |-> <<>>, messageId |-> NoId,
              taskId |-> NoId, contextId |-> NoId]

\* a2a_message lines 81-84: message_text after the loop over the parts.
RECURSIVE Accumulate(_)
Accumulate(parts) ==
    IF Len(parts) = 0 THEN <<>>
    ELSE (IF Head(parts).type = "text" THEN Head(parts).text \o <<" ">>
          ELSE <<>>) \o Accumulate(Tail(parts))

\* a2a_message lines 81-86.
MessageText(parts) == strip(Accumulate(parts))

\* ------------------------------------- capability peer: process_request

\* Parameters process_request hands to the search: location, dates and the
\* category (budget for hotels, vehicle_type for cars).
Fields == {"location", "check_in", "check_out", "category"}
AllAbsent == [f \in Fields |-> "absent"]

\* response.content of the extraction call, as json.loads sees it: text
\* that is not JSON, a JSON object (each field extracted, null or missing),
\* a JSON array, a JSON string/number/boolean, JSON null; or the call
\* raises.
LLMAnswers ==
    {[kind |-> k, fields |-> AllAbsent] :
         k \in {"raises", "text", "array", "scalar", "null"}}
    \cup {[kind |-> "object", fields |-> o] :
             o \in [Fields -> {"extracted", "null", "absent"}]}
NoOutput == [kind |-> "none", fields |-> AllAbsent]

\* The literals of the fallback dict and of the .get defaults
\* (simple_hotel_agent.py lines 120-134, simple_car_agent.py lines 199-218).
DefaultValue(agent, f) ==
    CASE f = "location" -> "Paris"
      [] f = "check_in" -> "2025-10-06"
      [] f = "check_out" -> "2025-10-07"
      [] OTHER -> IF agent = "hotel" THEN "any" ELSE "economy"

\* lines 116-126: json.loads(response.content); only a failure to parse
\* reaches the except branch and its fallback dict.
ParseExtraction(agent, out) ==
    CASE out.kind = "text" ->
            [t |-> "dict", fields |-> [f \in Fields |-> DefaultValue(agent, f)]]
      [] out.kind = "object" ->
            [t |-> "dict",
             fields |-> [f \in Fields |->
                           CASE out.fields[f] = "extracted" -> "extracted"
                             [] out.fields[f] = "null" -> "None"
                             [] OTHER -> "absent"]]
      [] OTHER -> [t |-> out.kind, fields |-> AllAbsent]
NoInfo == [t |-> "unset", fields |-> AllAbsent]

\* extracted_info.get(f, default) on a dict.
Get(agent, info, f) ==
    IF info.fields[f] = "absent" THEN DefaultValue(agent, f)
    ELSE info.fields[f]
NoArgs == AllAbsent

\* Outcomes of the search call and the string search_hotels /
\* search_car_rentals returns for each (lines 32-33, 49-77).
SearchOutcomes == {"nokey", "items", "noorganic", "failed"}
SearchResults(o) ==
    CASE o = "nokey" -> "{error: SERPER_API_KEY not found}"
      [] o = "items" -> "[items]"
      [] o = "noorganic" -> "[]"
      [] OTHER -> "{error: Search failed}"

CapResponse(kind, results) == [kind |-> kind, results |-> results]
NoCapResponse == CapResponse("none", "")

\* ------------------------------------------------- search and its results

\* Characters of a snippet, by what the pattern of line 60 makes of them:
\* the dollar sign, a digit, one of "," and ".", anything else.
Digits == {"1"}
Separators == {","}
SnippetChars == {"$", "x"} \cup Digits \cup Separators
Snippets == UNION {[1..n -> SnippetChars] : n \in 0..MaxSnippet}

\* An entry of data["organic"], with or without the key "snippet".
Result(has, text) == [has_snippet |-> has, snippet |-> text]
Results == {Result(TRUE, t) : t \in Snippets} \cup {Result(FALSE, <<>>)}
Organics == UNION {[1..n -> Results] : n \in 0..MaxResults}

\* data["organic"][:5]
FirstFive(o) == SubSeq(o, 1, IF Len(o) < 5 THEN Len(o) ELSE 5)

\* result.get("snippet", "")
SnippetOf(res) == IF res.has_snippet THEN res.snippet ELSE <<>>

\* Variant: the pattern is tried at the start of the snippet only
\* (re.match).
StartPositions_AtStart(t) == IF Len(t) = 0 THEN {} ELSE {1}

\* re.search tries the pattern at every position of the snippet, from the
\* left.
StartPositions(t) == 1..Len(t)

\* [0-9]* from position i: the position after the run of digits.
RECURSIVE DigitsEnd(_, _)
DigitsEnd(t, i) ==
    IF i <= Len(t) /\ t[i] \in Digits THEN DigitsEnd(t, i + 1) ELSE i

\* \$[0-9]+ matches at position i.
MatchesAt(t, i) == i < Len(t) /\ t[i] = "$" /\ t[i + 1] \in Digits

\* re.search(r"\$([0-9]+[,.]?[0-9]*)", snippet): the leftmost position
\* where the pattern matches, 0 for None.
re_search(t) ==
    LET at == {i \in StartPositions(t) : MatchesAt(t, i)}
    IN  IF at = {} THEN 0 ELSE CHOOSE i \in at : \A j \in at : i <= j

\* price_match.group(1) for a match at position i: the digits, then one
\* separator if there is one, then the digits after it, each taken
\* greedily.
group1(t, i) ==
    LET a == DigitsEnd(t, i + 1)
        b == IF a <= Len(t) /\ t[a] \in Separators THEN a + 1 ELSE a
        c == DigitsEnd(t, b)
    IN  SubSeq(t, i + 1, c - 1)

\* Lines 57-62 and 72: f"${price_match.group(1)} USD", or "N/A".
estimated_cost_usd(res) ==
    LET t == SnippetOf(res)
        i == re_search(t)
    IN  IF i = 0 THEN <<"N/A">>
        ELSE <<"$">> \o group1(t, i) \o <<" USD">>

\* ------------------------------------------ the car agent's last response

\* current_state.values.get("structured_response"): None, a ResponseFormat
\* or a value of another type (a dict with the same keys).
Statuses == {"input_required", "completed", "error"}
Missing == [t |-> "None", status |-> "none", results |-> <<>>,
            message |-> ""]
Structured(t, status, results, message) ==
    [t |-> t, status |-> status, results |-> results, message |-> message]
StructuredResponses ==
    {Missing} \cup
    {Structured(t, st, rs, m) :
        t \in {"ResponseFormat", "dict"}, st \in Statuses,
        rs \in {<<>>, <<"rental">>}, m \in {"", "text", "[list]"}}

\* Variant: any value with a status is taken for a ResponseFormat.
IsResponseFormat_AnyType(sr) == sr.t # "None"

\* Line 230: structured_response and isinstance(structured_response,
\* ResponseFormat).
IsResponseFormat(sr) == sr.t = "ResponseFormat"

AgentResponse(complete, input, content) ==
    [is_task_complete |-> complete, require_user_input |-> input,
     content |-> content]
NoAgentResponse == AgentResponse(FALSE, FALSE, "unset")

\* Lines 244-255: the results, or the list found in the message when the
\* results are empty.
Rentals(sr) ==
    IF sr.results # <<>> THEN "results"
    ELSE IF sr.message = "[list]" THEN "list of message" ELSE "empty"

\* get_agent_response lines 229-268.
AgentResponseOf(sr) ==
    IF IsResponseFormat(sr) /\ sr.status \in {"input_required", "error"}
    THEN AgentResponse(FALSE, TRUE, sr.message)
    ELSE IF IsResponseFormat(sr) /\ sr.status = "completed"
    THEN AgentResponse(TRUE, FALSE, Rentals(sr))
    ELSE AgentResponse(FALSE, TRUE, "unable to process")

\* ------------------------------------------- services and their requests

Reqs == 1..MaxReqs

\* The programs serving POST /plan (the planner executors) and the front
\* door serving POST /api/plan-trip.
PlannerExecutors == {"simple_executor", "simple_executor_with_logging",
                     "simple_a2a_executor"}
ServeImpls == PlannerExecutors \cup {"ag_ui_server"}

\* The planner class an executor constructs: TravelPlannerAgent
\* (simple_executor.py line 31, simple_executor_with_logging.py line 37) or
\* SimpleA2ATravelPlanner (simple_a2a_agent.py line 251).
PlannerKind(i) == IF i = "simple_a2a_executor" THEN "a2a" ELSE "adk"

\* Values of the global travel_planner: None, or the n-th planner object
\* constructed in the process.
None == [id |-> 0, kind |-> "None"]
Instance(n, k) == [id |-> n, kind |-> k]

\* Constructing the planner needs GROQ_API_KEY for TravelPlannerAgent
\* (agent.py lines 48-51); SimpleA2ATravelPlanner.__init__ needs nothing.
\* Without the key the fallback SimpleTravelPlanner() of
\* simple_executor_with_logging raises the same ValueError
\* (simple_travel_planner.py lines 21-23).
CanConstruct(i, key) == i = "simple_a2a_executor" \/ key

\* plan_trip calls initialize_agent when the global is None
\* (simple_executor.py lines 55-56, simple_executor_with_logging.py lines
\* 65-67); simple_a2a_executor.py lines 39-40 raises instead.
LazyInit(i) == i # "simple_a2a_executor"

\* A chunk as the handlers read it: chunk.get("is_task_complete"),
\* chunk.get("content", ""), chunk.get("type"), chunk.get("text", "").
ChunkTexts == {<<>>, <<"a">>, <<"b">>}
Chunk(complete, content) ==
    [is_task_complete |-> complete, content |-> content,
     type |-> "absent", text |-> <<>>]

\* TravelPlannerAgent.stream lines 165-189: one chunk per event, with the
\* response text for a final event and an "updates" text otherwise.
ADKChunks == {Chunk(FALSE, <<>>)} \cup {Chunk(TRUE, c) : c \in ChunkTexts}
ADKChunkSeqs == UNION {[1..n -> ADKChunks] : n \in 0..MaxChunks}

\* SimpleA2ATravelPlanner.stream lines 145-241: five chunks with updates,
\* then the chunk with the plan.
A2AChunkSeq ==
    <<Chunk(FALSE, <<>>), Chunk(FALSE, <<>>), Chunk(FALSE, <<>>),
      Chunk(FALSE, <<>>), Chunk(FALSE, <<>>), Chunk(TRUE, <<"a">>)>>

\* plan_trip of simple_executor.py (lines 63-78) and simple_a2a_executor.py
\* (lines 48-60): response_parts after the loop, joined.
RECURSIVE CollectComplete(_)
CollectComplete(cs) ==
    IF Len(cs) = 0 THEN <<>>
    ELSE (IF Head(cs).is_task_complete /\ Head(cs).content # <<>>
          THEN Head(cs).content ELSE <<>>) \o CollectComplete(Tail(cs))

\* plan_trip of simple_executor_with_logging.py (lines 79-88): only chunks
\* whose "type" is "text" contribute, with their "text".
RECURSIVE CollectText(_)
CollectText(cs) ==
    IF Len(cs) = 0 THEN <<>>
    ELSE (IF Head(cs).type = "text" THEN Head(cs).text ELSE <<>>)
             \o CollectText(Tail(cs))

\* full_response of the executor i for the chunks cs.
full_response(i, cs) ==
    IF i = "simple_executor_with_logging" THEN CollectText(cs)
    ELSE CollectComplete(cs)

\* What a handler returned: {"plan": plan} with status 200, or the 500 of
\* the HTTPException.
Served(status, text) == [status |-> status, plan |-> text]
NoServed == Served("none", <<>>)

\* The session id every request streams under: "travel_session"
\* (simple_executor.py line 60, simple_executor_with_logging.py line 72);
\* a session belongs to the session service of one planner object.
Session(inst, by) == [inst |-> inst, by |-> by]
SessionsOf(inst) == {x \in sessions : x.inst = inst}

\* log_agent_communication lines 33-51: the file is read, the entry is
\* appended, the file is written back.
Entry(r, agent) == [req |-> r, agent |-> agent]
Writers(l) == {l[i].req : i \in DOMAIN l}

\* Variant: only successful responses are stored.
HistoryAfter_OnlySuccess(h, r, success) ==
    IF success THEN Append(h, [id |-> r, success |-> success]) ELSE h

\* front door plan_trip line 488: the response is stored, whatever its
\* success flag.
HistoryAfter(h, r, success) == Append(h, [id |-> r, success |-> success])

\* A handler that has started and not returned.
Running(r) == rpc[r] \notin {"idle", "returned"}

\* overlap after request r has started.
OverlapAfterStart(r) ==
    [q \in Reqs |->
        IF q = r THEN {w \in Reqs \ {r} : Running(w)}
        ELSE IF Running(q) THEN overlap[q] \cup {r} ELSE overlap[q]]

\* A service's state before it has started.
ServeFresh ==
    /\ travel_planner = None
    /\ constructed = 0
    /\ replaced = FALSE
    /\ rpc = [r \in Reqs |-> "idle"]
    /\ overlap = [r \in Reqs |-> {}]
    /\ read_from = [r \in Reqs |-> {}]
    /\ mine = [r \in Reqs |-> None]
    /\ sessions = {}
    /\ chunks = [r \in Reqs |-> <<>>]
    /\ served = [r \in Reqs |-> NoServed]
    /\ comm_log = <<>>

\* The planner's state before its first operation.
PlannerFresh ==
    /\ exc = "none"
    /\ opCount = 0
    /\ car_needed = TRUE
    /\ agent_status = NoStatus
    /\ inflight = {}
    /\ sends = ZeroSends
    /\ reply = NoReply
    /\ resp = NoResp
    /\ answer = NoAnswer
    /\ destination = "unset"
    /\ narrative = "none"
    /\ plan_prompt = NoPrompt
    /\ result = NoPlan
    /\ plan = NoPlan
    /\ log = <<>>
    /\ total_requests = 0
    /\ successful_requests = 0
    /\ request_history = <<>>
    /\ active_requests = {}
    /\ failNarratives = {}
    /\ remote_agent_connections = {}
    /\ cards = {}
    /\ discovery = [p \in Peers |-> "none"]
    /\ adk_target = "none"
    /\ posts = ZeroSends
    /\ endpoint = NoEndpoint
    /\ envelope = NoEnvelopes
    /\ car_contacts = 0
    /\ now = 0
    /\ uuid = 0

\* The capability peer's state before a request has arrived.
PeerFresh ==
    /\ request = NoRequest
    /\ sent = NoSent
    /\ decoded = NoMessage
    /\ http_status = "none"
    /\ message_text = NoText
    /\ invoked = 0
    /\ response_id = NoId
    /\ llm_output = NoOutput
    /\ extracted_info = NoInfo
    /\ search_called = FALSE
    /\ search_args = NoArgs
    /\ search_outcome = "none"
    /\ searches = 0
    /\ cap_response = NoCapResponse
    /\ estimates = <<>>
    /\ agent_response = NoAgentResponse

Init ==
    /\ impl \in Impls
    /\ groq_key \in (IF impl = "adk" THEN BOOLEAN ELSE {TRUE})
    /\ pc = IF impl = "adk" THEN "create" ELSE "idle"
    /\ PlannerFresh
    /\ peer_agent = "hotel"
    /\ PeerFresh
    /\ organic = <<>>
    /\ structured_response = Missing
    /\ hook = "none"
    /\ events = <<>>
    /\ ServeFresh

\* A new request reaches the planner (stream lines 142-154, plan_trip
\* line 131, front door plan_trip lines 439-443): the locals of the
\* operation are fresh; the front door registers the request.
StartOperation ==
    /\ impl \in {"a2a", "simple", "frontdoor"}
    /\ pc = "idle"
    /\ opCount < MaxOps
    /\ opCount' = opCount + 1
    /\ pc' = "check_status"
    /\ exc' = "none"
    /\ car_needed' \in (IF impl = "frontdoor" THEN BOOLEAN ELSE {TRUE})
    /\ agent_status' = NoStatus
    /\ inflight' = {}
    /\ sends' = ZeroSends
    /\ reply' = NoReply
    /\ resp' = NoResp
    /\ answer' = IF impl = "frontdoor" THEN [p \in Peers |-> ""] ELSE NoAnswer
    /\ destination' = "unset"
    /\ narrative' = "none"
    /\ plan_prompt' = NoPrompt
    /\ result' = NoPlan
    /\ plan' = NoPlan
    /\ posts' = ZeroSends
    /\ endpoint' = NoEndpoint
    /\ envelope' = NoEnvelopes
    /\ car_contacts' = 0
    /\ now' = 0
    /\ IF impl = "frontdoor"
       THEN /\ total_requests' = total_requests + 1
            /\ active_requests' = active_requests \cup {opCount + 1}
       ELSE UNCHANGED <<total_requests, active_requests>>
    /\ UNCHANGED <<impl, groq_key, log, successful_requests, request_history,
                   failNarratives, adkVars,
                   uuid, peerVars, serveVars>>

\* stream line 156: check_agent_status probes both peers.
A2ACheckAgentStatus ==
    /\ impl = "a2a"
    /\ pc = "check_status"
    /\ \E oh \in ProbeOutcomes, oc \in ProbeOutcomes :
          agent_status' = [agent_status EXCEPT !["hotel"] = A2AProbeStatus(oh),
                                               !["car"] = A2AProbeStatus(oc)]
    /\ pc' = "contact_hotel"
    /\ UNCHANGED <<impl, groq_key, exc, opCount, car_needed, inflight, sends,
                   reply, resp, answer, destination, narrative, plan_prompt,
                   result, plan, log, fdStats, failNarratives, adkVars,
                   wireVars, peerVars, serveVars, car_contacts>>

\* The POST to peer p leaves the planner (send_a2a_message line 132,
\* ask_*_agent lines 95/114, direct_agent_communication lines 664/681).
SendRequest(p) ==
    /\ impl \in {"a2a", "simple", "frontdoor"}
    /\ pc = ContactPoint(p)
    /\ (p = "car" => car_needed)
    /\ inflight' = inflight \cup {p}
    /\ sends' = [sends EXCEPT ![p] = @ + 1]
    /\ posts' = [posts EXCEPT ![p] = @ + 1]
    /\ car_contacts' = IF p = "car" THEN car_contacts + 1 ELSE car_contacts
    /\ endpoint' = [endpoint EXCEPT ![p] =
            MessageEndpoint(impl, Discovered(impl, agent_status,
                                             remote_agent_connections, p))]
    /\ IF impl = "a2a"
       THEN \E ts \in ClockReads(now) :
                /\ envelope' = [envelope EXCEPT ![p] = A2AEnvelope(ts)]
                /\ now' = ts[3]
       ELSE UNCHANGED <<envelope, now>>
    /\ pc' = AwaitPoint(p)
    /\ UNCHANGED <<impl, groq_key, exc, opCount, car_needed, agent_status,
                   reply, resp, answer, destination, narrative, plan_prompt,
                   result, plan, log, fdStats, failNarratives, adkVars,
                   uuid, peerVars, serveVars>>

\* stream lines 165-174 / 183-192: the call to p settles, the response is
\* logged, and the evaluation of the log status may raise.
A2ASettle(p) ==
    /\ impl = "a2a"
    /\ pc = (IF p = "hotel" THEN "await_hotel" ELSE "await_car")
    /\ p \in inflight
    /\ \E r \in Replies :
        LET v == send_a2a_message(r)
            st == LogStatus(v)
        IN  /\ reply' = [reply EXCEPT ![p] = r]
            /\ inflight' = inflight \ {p}
            /\ resp' = [resp EXCEPT ![p] = v]
            /\ posts' = PostsAfter(posts, p, r)
            /\ IF st = "TypeError"
               THEN /\ pc' = "raised"
                    /\ exc' = "TypeError"
                    /\ log' = log
               ELSE /\ pc' = AfterSettle(p)
                    /\ exc' = exc
                    /\ log' = Append(log, [agent |-> p, status |-> st])
    /\ now' \in {now, now + 1}
    /\ UNCHANGED <<impl, groq_key, opCount, car_needed, agent_status, sends,
                   answer, destination, narrative, plan_prompt, result, plan,
                   fdStats, failNarratives, adkVars,
                   endpoint, envelope, uuid, peerVars, serveVars, car_contacts>>

\* stream lines 200-241: extract the contents, fill the template and yield
\* the chunk with is_task_complete = True.  No LLM is involved.
A2ACompose ==
    /\ impl = "a2a"
    /\ pc = "compose"
    /\ LET hc == ExtractContent(resp["hotel"], "hotel")
           cc == ExtractContent(resp["car"], "car")
       IN  IF hc = "TypeError" \/ cc = "TypeError"
           THEN /\ pc' = "raised"
                /\ exc' = "TypeError"
                /\ plan' = plan
           ELSE /\ pc' = "done"
                /\ exc' = exc
                /\ plan' = MkPlan("plan", TRUE, Narr("", "template"),
                                  A2ASection(hc, "hotel"),
                                  A2ASection(cc, "car"),
                                  [p \in Peers |->
                                     A2AStatusLine(agent_status[p], resp[p])],
                                  "")
    /\ UNCHANGED <<impl, groq_key, opCount, car_needed, agent_status,
                   inflight, sends, reply, resp, answer, destination,
                   narrative, plan_prompt, result, log, fdStats,
                   failNarratives, adkVars,
                   wireVars, peerVars, serveVars, car_contacts>>

\* plan_trip line 135: check_agent_status; the result is only printed.
SimpleCheckAgentStatus ==
    /\ impl = "simple"
    /\ pc = "check_status"
    /\ \E oh \in ProbeOutcomes, oc \in ProbeOutcomes :
          agent_status' = [agent_status EXCEPT
                              !["hotel"] = SimpleProbeStatus(oh),
                              !["car"] = SimpleProbeStatus(oc)]
    /\ pc' = "extract_destination"
    /\ UNCHANGED <<impl, groq_key, exc, opCount, car_needed, inflight, sends,
                   reply, resp, answer, destination, narrative, plan_prompt,
                   result, plan, log, fdStats, failNarratives, adkVars,
                   wireVars, peerVars, serveVars, car_contacts>>

\* plan_trip line 142.
SimpleExtractDestination ==
    /\ impl = "simple"
    /\ pc = "extract_destination"
    /\ \E o \in LLMOutcomes : destination' = extract_destination(o)
    /\ pc' = "contact_hotel"
    /\ UNCHANGED <<impl, groq_key, exc, opCount, car_needed, agent_status,
                   inflight, sends, reply, resp, answer, narrative,
                   plan_prompt, result, plan, log, fdStats, failNarratives,
                   adkVars,
                   wireVars, peerVars, serveVars, car_contacts>>

\* plan_trip lines 148 / 153: requests.post returns or raises, and
\* ask_*_agent turns the outcome into a string.
SimpleSettle(p) ==
    /\ impl = "simple"
    /\ pc = (IF p = "hotel" THEN "await_hotel" ELSE "await_car")
    /\ p \in inflight
    /\ \E r \in Replies :
        /\ reply' = [reply EXCEPT ![p] = r]
        /\ posts' = PostsAfter(posts, p, r)
        /\ answer' = [answer EXCEPT ![p] = ask_agent(p, r)]
    /\ inflight' = inflight \ {p}
    /\ pc' = AfterSettle(p)
    /\ UNCHANGED <<impl, groq_key, exc, opCount, car_needed, agent_status,
                   sends, resp, destination, narrative, plan_prompt, result,
                   plan, log, fdStats, failNarratives, adkVars,
                   endpoint, envelope, clockVars, peerVars, serveVars, car_contacts>>

\* plan_trip lines 158-184: build plan_prompt, invoke the LLM, return its
\* text or the error string.
SimpleCompose ==
    /\ impl = "simple"
    /\ pc = "compose"
    /\ plan_prompt' = [hotel |-> answer["hotel"], car |-> answer["car"]]
    /\ \E o \in LLMOutcomes :
        /\ narrative' = o
        /\ plan' = MkPlan("plan", TRUE, SimpleNarrative(o), "absent",
                          "absent", AbsentStatus, "")
        /\ failNarratives' = IF o = "ok" THEN failNarratives
                             ELSE failNarratives \cup {SimpleNarrative(o)}
    /\ pc' = "done"
    /\ UNCHANGED <<impl, groq_key, exc, opCount, car_needed, agent_status,
                   inflight, sends, reply, resp, answer, destination, result,
                   log, fdStats, adkVars,
                   wireVars, peerVars, serveVars, car_contacts>>

\* front door plan_trip line 446: check_agent_status probes the planner and
\* both peers; lines 460-464 choose the route.
FDCheckAgentStatus ==
    /\ impl = "frontdoor"
    /\ pc = "check_status"
    /\ \E op \in ProbeOutcomes, oh \in ProbeOutcomes, oc \in ProbeOutcomes :
        LET st == [a \in Agents |->
                     FDProbeStatus(CASE a = "planner" -> op
                                     [] a = "hotel" -> oh
                                     [] OTHER -> oc)]
        IN  /\ agent_status' = st
            /\ pc' = IF UsePlanner(st) THEN "contact_planner"
                     ELSE "contact_hotel"
    /\ UNCHANGED <<impl, groq_key, exc, opCount, car_needed, inflight, sends,
                   reply, resp, answer, destination, narrative, plan_prompt,
                   result, plan, log, fdStats, failNarratives, adkVars,
                   wireVars, peerVars, serveVars, car_contacts>>

\* coordinate_travel_planning line 634: POST /plan leaves the front door.
SendPlanner ==
    /\ impl = "frontdoor"
    /\ pc = "contact_planner"
    /\ inflight' = inflight \cup {"planner"}
    /\ sends' = [sends EXCEPT !["planner"] = @ + 1]
    /\ posts' = [posts EXCEPT !["planner"] = @ + 1]
    /\ endpoint' = [endpoint EXCEPT !["planner"] = "/plan"]
    /\ pc' = "await_planner"
    /\ UNCHANGED <<impl, groq_key, exc, opCount, car_needed, agent_status,
                   reply, resp, answer, destination, narrative, plan_prompt,
                   result, plan, log, fdStats, failNarratives, adkVars,
                   envelope, clockVars, peerVars, serveVars, car_contacts>>

\* coordinate_travel_planning lines 634-652: POST /plan settles.
SettlePlanner ==
    /\ impl = "frontdoor"
    /\ pc = "await_planner"
    /\ "planner" \in inflight
    /\ \E r \in PlannerReplies :
        /\ reply' = [reply EXCEPT !["planner"] = r]
        /\ posts' = PostsAfter(posts, "planner", r)
        /\ result' = coordinate_travel_planning(r)
        /\ \E n \in PlannerCarSends(r) : car_contacts' = car_contacts + n
    /\ inflight' = inflight \ {"planner"}
    /\ pc' = "respond"
    /\ UNCHANGED <<impl, groq_key, exc, opCount, car_needed, agent_status,
                   sends, resp, answer, destination, narrative, plan_prompt,
                   plan, log, fdStats, failNarratives, adkVars,
                   endpoint, envelope, clockVars, peerVars, serveVars>>

\* direct_agent_communication lines 664-674 / 681-691: the POST to /chat
\* settles.
DirectSettle(p) ==
    /\ impl = "frontdoor"
    /\ pc = (IF p = "hotel" THEN "await_hotel" ELSE "await_car")
    /\ p \in inflight
    /\ \E r \in Replies :
        /\ reply' = [reply EXCEPT ![p] = r]
        /\ posts' = PostsAfter(posts, p, r)
        /\ answer' = [answer EXCEPT ![p] = direct_answer(p, r, answer[p])]
    /\ inflight' = inflight \ {p}
    /\ pc' = AfterSettle(p)
    /\ UNCHANGED <<impl, groq_key, exc, opCount, car_needed, agent_status,
                   sends, resp, destination, narrative, plan_prompt, result,
                   plan, log, fdStats, failNarratives, adkVars,
                   endpoint, envelope, clockVars, peerVars, serveVars, car_contacts>>

\* direct_agent_communication line 677: car_needed is false, no car request.
SkipCar ==
    /\ impl = "frontdoor"
    /\ pc = "contact_car"
    /\ ~car_needed
    /\ pc' = "compose"
    /\ UNCHANGED <<impl, groq_key, exc, opCount, car_needed, agent_status,
                   inflight, sends, reply, resp, answer, destination,
                   narrative, plan_prompt, result, plan, log, fdStats,
                   failNarratives, adkVars,
                   wireVars, peerVars, serveVars, car_contacts>>

\* direct_agent_communication lines 693-732: the LLM writes travel_plan, or
\* the except branch writes the error text; the result says success.
DirectCompose ==
    /\ impl = "frontdoor"
    /\ pc = "compose"
    /\ plan_prompt' = [hotel |-> answer["hotel"], car |-> answer["car"]]
    /\ \E o \in LLMOutcomes :
        /\ narrative' = o
        /\ result' = MkPlan("result", TRUE, DirectNarrative(o),
                            answer["hotel"], answer["car"], AbsentStatus, "")
        /\ failNarratives' = IF o = "ok" THEN failNarratives
                             ELSE failNarratives \cup {DirectNarrative(o)}
    /\ pc' = "respond"
    /\ UNCHANGED <<impl, groq_key, exc, opCount, car_needed, agent_status,
                   inflight, sends, reply, resp, answer, destination, plan,
                   log, fdStats, adkVars,
                   wireVars, peerVars, serveVars, car_contacts>>

\* front door plan_trip lines 466-494: build the UserResponse, count a
\* success, store the response, drop the request from active_requests.
Respond ==
    /\ impl = "frontdoor"
    /\ pc = "respond"
    /\ plan' = UserResponse(result)
    /\ successful_requests' = IF result.success THEN successful_requests + 1
                              ELSE successful_requests
    /\ request_history' = Append(request_history, result.success)
    /\ active_requests' = active_requests \ {opCount}
    /\ pc' = "done"
    /\ UNCHANGED <<impl, groq_key, exc, opCount, car_needed, agent_status,
                   inflight, sends, reply, resp, answer, destination,
                   narrative, plan_prompt, result, log, total_requests,
                   failNarratives, adkVars,
                   wireVars, peerVars, serveVars, car_contacts>>

\* The operation is over (plan returned or exception reported); the process
\* waits for the next request.
Return ==
    /\ impl \in {"a2a", "simple", "frontdoor"}
    /\ pc \in {"done", "raised"}
    /\ pc' = "idle"
    /\ UNCHANGED <<impl, groq_key, exc, opCount, opLocal, log, fdStats,
                   failNarratives, adkVars,
                   clockVars, peerVars, serveVars, car_contacts>>

\* TravelPlannerAgent.create line 91: cls() raises ValueError without
\* GROQ_API_KEY (__init__ lines 48-51).
Create ==
    /\ impl = "adk"
    /\ pc = "create"
    /\ IF groq_key
       THEN pc' = "discover_hotel" /\ exc' = exc
       ELSE pc' = "raised" /\ exc' = "ValueError"
    /\ UNCHANGED <<impl, groq_key, opCount, opLocal, log, fdStats,
                   failNarratives, adkVars,
                   clockVars, peerVars, serveVars, car_contacts>>

\* _async_init_components lines 65-77: one pass of the loop over the
\* configured addresses (hotel first, then car).
Discover(p) ==
    /\ impl = "adk"
    /\ pc = (IF p = "hotel" THEN "discover_hotel" ELSE "discover_car")
    /\ \E o \in DiscoveryOutcomes :
        /\ discovery' = [discovery EXCEPT ![p] = o]
        /\ IF DiscoveryRaises(o)
           THEN /\ pc' = "raised"
                /\ exc' = "DiscoveryError"
                /\ UNCHANGED <<remote_agent_connections, cards>>
           ELSE /\ pc' = (IF p = "hotel" THEN "discover_car" ELSE "ready")
                /\ exc' = exc
                /\ IF DiscoveryStores(o)
                   THEN /\ remote_agent_connections' =
                              remote_agent_connections \cup {CardName(p)}
                        /\ cards' = cards \cup {CardName(p)}
                   ELSE UNCHANGED <<remote_agent_connections, cards>>
    /\ UNCHANGED <<impl, groq_key, opCount, opLocal, log, fdStats,
                   failNarratives, adk_target,
                   clockVars, peerVars, serveVars, car_contacts>>

AskNames == AgentNames \cup {"Flight Agent"}

\* send_message lines 191-219: refuse a name without a connection, else
\* build the envelope and hand it to the connection.
send_message(n) ==
    /\ impl = "adk"
    /\ pc = "ready"
    /\ opCount < MaxOps
    /\ opCount' = opCount + 1
    /\ adk_target' = n
    /\ IF KnownAgent(n, remote_agent_connections)
       THEN /\ inflight' = inflight \cup {PeerOf(n)}
            /\ sends' = [sends EXCEPT ![PeerOf(n)] = @ + 1]
            /\ posts' = [posts EXCEPT ![PeerOf(n)] = @ + 1]
            /\ endpoint' = [endpoint EXCEPT ![PeerOf(n)] =
                    MessageEndpoint(impl, Discovered(impl, agent_status,
                                        remote_agent_connections, PeerOf(n)))]
            /\ envelope' = [envelope EXCEPT ![PeerOf(n)] = ADKEnvelope(uuid)]
            /\ uuid' = uuid + 3
            /\ pc' = "adk_await"
            /\ exc' = "none"
       ELSE /\ pc' = "adk_raised"
            /\ exc' = "ValueError"
            /\ UNCHANGED <<inflight, sends, posts, endpoint, envelope,
                           uuid>>
    /\ UNCHANGED <<impl, groq_key, car_needed, agent_status, reply, resp,
                   answer, destination, narrative, plan_prompt, result, plan,
                   log, fdStats, failNarratives, remote_agent_connections,
                   cards, discovery,
                   now, peerVars, serveVars, car_contacts>>

\* send_message lines 219-236: the connection's send returns or raises.
ADKSettle ==
    /\ impl = "adk"
    /\ pc = "adk_await"
    /\ \E r \in ADKReplies :
        /\ reply' = [reply EXCEPT ![PeerOf(adk_target)] = r]
        /\ posts' = PostsAfter(posts, PeerOf(adk_target), r)
        /\ IF r = "exception"
           THEN pc' = "adk_raised" /\ exc' = "SendError"
           ELSE pc' = "adk_done" /\ exc' = exc
    /\ inflight' = {}
    /\ UNCHANGED <<impl, groq_key, opCount, car_needed, agent_status, sends,
                   resp, answer, destination, narrative, plan_prompt, result,
                   plan, log, fdStats, failNarratives, adkVars,
                   endpoint, envelope, clockVars, peerVars, serveVars, car_contacts>>

\* send_message has returned or raised; the agent is ready for the next.
ADKReturn ==
    /\ impl = "adk"
    /\ pc \in {"adk_done", "adk_raised"}
    /\ pc' = "ready"
    /\ UNCHANGED <<impl, groq_key, exc, opCount, opLocal, log, fdStats,
                   failNarratives, adkVars,
                   clockVars, peerVars, serveVars, car_contacts>>

Next ==
    \/ StartOperation
    \/ A2ACheckAgentStatus
    \/ \E p \in Peers : SendRequest(p)
    \/ \E p \in Peers : A2ASettle(p)
    \/ A2ACompose
    \/ SimpleCheckAgentStatus
    \/ SimpleExtractDestination
    \/ \E p \in Peers : SimpleSettle(p)
    \/ SimpleCompose
    \/ FDCheckAgentStatus
    \/ SendPlanner
    \/ SettlePlanner
    \/ \E p \in Peers : DirectSettle(p)
    \/ SkipCar
    \/ DirectCompose
    \/ Respond
    \/ Return
    \/ Create
    \/ \E p \in Peers : Discover(p)
    \/ \E n \in AskNames : send_message(n)
    \/ ADKSettle
    \/ ADKReturn

Spec == Init /\ [][Next]_vars

\* ----------------------------------------------------- capability peer

InitPeer ==
    /\ impl \in PeerImpls
    /\ groq_key = TRUE
    /\ pc = CASE impl = "handler" -> "listening"
              [] impl = "capability" -> "received"
              [] impl = "search" -> "searching"
              [] OTHER -> "responding"
    /\ PlannerFresh
    /\ peer_agent \in (CASE impl = "car_agent" -> {"car"}
                          [] impl = "search" -> {"hotel"}
                          [] OTHER -> Peers)
    /\ PeerFresh
    /\ organic \in (IF impl = "search" THEN Organics ELSE {<<>>})
    /\ structured_response \in
          (IF impl = "car_agent" THEN StructuredResponses ELSE {Missing})
    /\ hook = "none"
    /\ events = <<>>
    /\ ServeFresh

\* send_a2a_message lines 112-132: the planner builds the payload for a
\* message text and posts it to the peer's /a2a/message.
SendEnvelope ==
    /\ impl = "handler"
    /\ pc = "listening"
    /\ \E text \in Texts, ts \in ClockReads(0) :
        /\ request' = send_a2a_payload(text, A2AEnvelope(ts))
        /\ sent' = Sent(text, A2AEnvelope(ts))
    /\ pc' = "posted"
    /\ UNCHANGED <<impl, plannerVars, serveVars, searchVars, peer_agent, decoded, http_status,
                   message_text, invoked, response_id, capVars>>

\* Some other client posts a body to /a2a/message.
PostBody ==
    /\ impl = "handler"
    /\ pc = "listening"
    /\ \E b \in Bodies : request' = b
    /\ pc' = "posted"
    /\ UNCHANGED <<impl, plannerVars, serveVars, searchVars, peer_agent, sent, decoded, http_status,
                   message_text, invoked, response_id, capVars>>

\* POST /a2a/message (a2a_hotel_executor.py / a2a_car_executor.py lines
\* 76-111): a body that does not validate is answered 422 before the
\* handler runs; otherwise the handler builds message_text, calls
\* process_request, which returns a string whatever happens inside it, and
\* answers 200 with the message id echoed.
a2a_message ==
    /\ impl = "handler"
    /\ pc = "posted"
    /\ IF Validates(request)
       THEN /\ decoded' = A2AMessage(request)
            /\ message_text' = MessageText(A2AMessage(request).parts)
            /\ invoked' = invoked + 1
            /\ response_id' = request.messageId
            /\ http_status' = "200"
       ELSE /\ http_status' = "422"
            /\ UNCHANGED <<decoded, message_text, invoked, response_id>>
    /\ pc' = "answered"
    /\ UNCHANGED <<impl, plannerVars, serveVars, searchVars, peer_agent, request, sent, capVars>>

\* process_request (simple_hotel_agent.py lines 95-160, simple_car_agent.py
\* lines 162-254): the extraction call, json.loads with its fallback dict,
\* the search with the .get defaults, and the response; every exception
\* inside ends in the error string.
process_request ==
    /\ impl = "capability"
    /\ pc = "received"
    /\ \E out \in LLMAnswers, so \in SearchOutcomes :
        LET info == ParseExtraction(peer_agent, out)
        IN  /\ llm_output' = out
            /\ IF out.kind = "raises"
               THEN /\ extracted_info' = NoInfo
                    /\ search_called' = FALSE
                    /\ search_args' = NoArgs
                    /\ search_outcome' = "none"
                    /\ searches' = searches
                    /\ cap_response' = CapResponse("error", "")
               ELSE /\ extracted_info' = info
                    /\ IF info.t = "dict"
                       THEN /\ search_called' = TRUE
                            /\ search_args' =
                                  [f \in Fields |-> Get(peer_agent, info, f)]
                            /\ search_outcome' = so
                            /\ searches' = searches + 1
                            /\ cap_response' =
                                  CapResponse("final", SearchResults(so))
                       ELSE /\ search_called' = FALSE
                            /\ search_args' = NoArgs
                            /\ search_outcome' = "none"
                            /\ searches' = searches
                            /\ cap_response' = CapResponse("error", "")
    /\ pc' = "returned"
    /\ UNCHANGED <<impl, plannerVars, serveVars, searchVars, peer_agent, handlerVars>>

\* search_hotels (simple_hotel_agent.py lines 52-75) and search_car_rentals
\* (simple_car_agent.py, app/agent.py lines 77-94) after the reply of the
\* search service has arrived: one result per entry of data["organic"],
\* at most five, each with its estimated cost.
search_hotels ==
    /\ impl = "search"
    /\ pc = "searching"
    /\ estimates' = [k \in 1..Len(FirstFive(organic)) |->
                        estimated_cost_usd(organic[k])]
    /\ pc' = "searched"
    /\ UNCHANGED <<impl, plannerVars, serveVars, peer_agent, handlerVars,
                   capVars, organic, structured_response, agent_response>>

\* CarRentalAgent.get_agent_response lines 227-268.
get_agent_response ==
    /\ impl = "car_agent"
    /\ pc = "responding"
    /\ agent_response' = AgentResponseOf(structured_response)
    /\ pc' = "responded"
    /\ UNCHANGED <<impl, plannerVars, serveVars, peer_agent, handlerVars,
                   capVars, organic, estimates, structured_response>>

NextPeer ==
    \/ SendEnvelope
    \/ PostBody
    \/ a2a_message
    \/ process_request
    \/ search_hotels
    \/ get_agent_response

SpecPeer == InitPeer /\ [][NextPeer]_vars

\* ------------------------------------------ services: concurrent requests

\* What the service actions leave alone.
serveFrame == <<impl, pc, groq_key, exc, opCount, opLocal, log,
                failNarratives, adkVars, clockVars, car_contacts, peerVars>>

\* hook "off": the application is served without its startup events (ASGI
\* lifespan disabled, or a test client used without its context manager);
\* the front door has no startup hook that matters here.  events is the
\* sequence of events the planner's run yields in this behaviour.
InitServe ==
    /\ impl \in ServeImpls
    /\ groq_key \in (IF impl \in {"simple_executor",
                                 "simple_executor_with_logging"}
                     THEN BOOLEAN ELSE {TRUE})
    /\ pc = "serving"
    /\ PlannerFresh
    /\ peer_agent = "hotel"
    /\ PeerFresh
    /\ organic = <<>>
    /\ structured_response = Missing
    /\ hook \in (IF impl = "ag_ui_server" THEN {"off"} ELSE {"pending", "off"})
    /\ events \in (IF impl \in PlannerExecutors /\ PlannerKind(impl) = "adk"
                    THEN ADKChunkSeqs ELSE {<<>>})
    /\ ServeFresh

\* lifespan (simple_executor.py lines 41-47, simple_a2a_executor.py lines
\* 18-31) / startup_event (simple_executor_with_logging.py lines 51-55):
\* initialize_agent runs to its end before the first request is served; if
\* it raises, the application does not start.
startup ==
    /\ impl \in PlannerExecutors
    /\ hook = "pending"
    /\ IF CanConstruct(impl, groq_key)
       THEN /\ travel_planner' = Instance(constructed + 1, PlannerKind(impl))
            /\ constructed' = constructed + 1
            /\ replaced' = (replaced \/ travel_planner # None)
            /\ hook' = "done"
       ELSE /\ hook' = "failed"
            /\ UNCHANGED <<travel_planner, constructed, replaced>>
    /\ UNCHANGED <<serveFrame, fdStats, events, reqVars, sessions, comm_log>>

\* First suspension point of the stream of a planner of kind k:
\* check_agent_status (simple_a2a_agent.py line 156) or get_session
\* (agent.py line 152).
StreamEntry(k) == IF k = "a2a" THEN "check_status" ELSE "get_session"

\* POST /plan, up to the first point where the handler is suspended.  With
\* a planner in the global the handler enters its stream.  With None,
\* simple_a2a_executor raises (500); the others call initialize_agent,
\* which finds None again, constructs the planner object and is suspended
\* inside TravelPlannerAgent.create (the card fetches of discovery) before
\* the global is assigned.
plan_trip(r) ==
    /\ impl \in PlannerExecutors
    /\ hook \in {"done", "off"}
    /\ rpc[r] = "idle"
    /\ overlap' = OverlapAfterStart(r)
    /\ IF travel_planner # None
       THEN /\ mine' = [mine EXCEPT ![r] = travel_planner]
            /\ rpc' = [rpc EXCEPT ![r] = StreamEntry(travel_planner.kind)]
            /\ UNCHANGED <<constructed, served>>
       ELSE IF LazyInit(impl) /\ CanConstruct(impl, groq_key)
       THEN /\ mine' = [mine EXCEPT ![r] =
                          Instance(constructed + 1, PlannerKind(impl))]
            /\ constructed' = constructed + 1
            /\ rpc' = [rpc EXCEPT ![r] = "creating"]
            /\ UNCHANGED served
       ELSE /\ served' = [served EXCEPT ![r] = Served("500", <<>>)]
            /\ rpc' = [rpc EXCEPT ![r] = "returned"]
            /\ UNCHANGED <<mine, constructed>>
    /\ UNCHANGED <<serveFrame, fdStats, hook, travel_planner, replaced,
                   events, read_from, chunks, sessions, comm_log>>

\* initialize_agent (simple_executor.py lines 31-33,
\* simple_executor_with_logging.py lines 37-39): create has returned, the
\* global is assigned, and plan_trip goes on to travel_planner.stream.
initialize_agent(r) ==
    /\ impl \in PlannerExecutors
    /\ rpc[r] = "creating"
    /\ travel_planner' = mine[r]
    /\ replaced' = (replaced \/ travel_planner # None)
    /\ rpc' = [rpc EXCEPT ![r] = StreamEntry(mine[r].kind)]
    /\ UNCHANGED <<serveFrame, fdStats, hook, constructed, events, overlap,
                   read_from, mine, chunks, served, sessions, comm_log>>

\* TravelPlannerAgent.stream lines 152-156: get_session returns the session
\* stored under the session id, or None.
get_session(r) ==
    /\ impl \in PlannerExecutors
    /\ rpc[r] = "get_session"
    /\ IF SessionsOf(mine[r].id) = {}
       THEN /\ rpc' = [rpc EXCEPT ![r] = "create_session"]
            /\ UNCHANGED read_from
       ELSE /\ rpc' = [rpc EXCEPT ![r] = "run_async"]
            /\ read_from' = [read_from EXCEPT ![r] =
                   @ \cup ({x.by : x \in SessionsOf(mine[r].id)} \ {r})]
    /\ UNCHANGED <<serveFrame, fdStats, globalVars, overlap, mine, chunks,
                   served, sessions, comm_log>>

\* TravelPlannerAgent.stream lines 158-164: create_session stores a session
\* under the session id.  When a concurrent request has stored one in the
\* meantime the session service either replaces it or raises.
create_session(r) ==
    /\ impl \in PlannerExecutors
    /\ rpc[r] = "create_session"
    /\ \E o \in (IF SessionsOf(mine[r].id) = {} THEN {"stored"}
                 ELSE {"stored", "raises"}) :
        IF o = "stored"
        THEN /\ sessions' = (sessions \ SessionsOf(mine[r].id))
                                \cup {Session(mine[r].id, r)}
             /\ rpc' = [rpc EXCEPT ![r] = "run_async"]
             /\ UNCHANGED served
        ELSE /\ served' = [served EXCEPT ![r] = Served("500", <<>>)]
             /\ rpc' = [rpc EXCEPT ![r] = "returned"]
             /\ UNCHANGED sessions
    /\ UNCHANGED <<serveFrame, fdStats, globalVars, overlap, read_from, mine,
                   chunks, comm_log>>

\* TravelPlannerAgent.stream lines 165-189 with the loop of plan_trip
\* around it: the events of run_async become chunks, the handler collects
\* them and returns the plan; an exception of the run ends in the 500.
run_async(r) ==
    /\ impl \in PlannerExecutors
    /\ rpc[r] = "run_async"
    /\ \E o \in {"ok", "raises"} :
        /\ chunks' = [chunks EXCEPT ![r] = events]
        /\ served' = [served EXCEPT ![r] =
               IF o = "ok" THEN Served("200", full_response(impl, events))
               ELSE Served("500", <<>>)]
    /\ rpc' = [rpc EXCEPT ![r] = "returned"]
    /\ UNCHANGED <<serveFrame, fdStats, globalVars, overlap, read_from, mine,
                   sessions, comm_log>>

\* SimpleA2ATravelPlanner.stream line 156: check_agent_status returns.
stream_check_agent_status(r) ==
    /\ impl \in PlannerExecutors
    /\ rpc[r] = "check_status"
    /\ rpc' = [rpc EXCEPT ![r] = "await_hotel"]
    /\ UNCHANGED <<serveFrame, fdStats, globalVars, overlap, read_from, mine,
                   chunks, served, sessions, comm_log>>

\* Outcomes of a send that matter to the logging of stream.
StreamReplies == {"ok", "refused", "null"}

\* SimpleA2ATravelPlanner.stream lines 165-174 (hotel) and 183-241 (car):
\* the send to the peer returns and the response is logged, which reads
\* the log file and writes it back with one more entry; after the car
\* entry the plan is compiled and the handler returns it.  The TypeError
\* of the status expression leaves stream and ends in the 500.
stream_log(r, p) ==
    /\ impl \in PlannerExecutors
    /\ rpc[r] = AwaitPoint(p)
    /\ \E rp \in StreamReplies :
        IF LogStatus(send_a2a_message(rp)) = "TypeError"
        THEN /\ served' = [served EXCEPT ![r] = Served("500", <<>>)]
             /\ rpc' = [rpc EXCEPT ![r] = "returned"]
             /\ UNCHANGED <<comm_log, read_from, chunks>>
        ELSE /\ comm_log' = Append(comm_log, Entry(r, p))
             /\ read_from' = [read_from EXCEPT ![r] =
                                 @ \cup (Writers(comm_log) \ {r})]
             /\ IF p = "hotel"
                THEN /\ rpc' = [rpc EXCEPT ![r] = "await_car"]
                     /\ UNCHANGED <<chunks, served>>
                ELSE /\ chunks' = [chunks EXCEPT ![r] = A2AChunkSeq]
                     /\ served' = [served EXCEPT ![r] =
                            Served("200", full_response(impl, A2AChunkSeq))]
                     /\ rpc' = [rpc EXCEPT ![r] = "returned"]
    /\ UNCHANGED <<serveFrame, fdStats, globalVars, overlap, mine, sessions>>

\* front door plan_trip lines 439-446: the request is registered and
\* counted, then the handler awaits check_agent_status.
register(r) ==
    /\ impl = "ag_ui_server"
    /\ rpc[r] = "idle"
    /\ overlap' = OverlapAfterStart(r)
    /\ active_requests' = active_requests \cup {r}
    /\ total_requests' = total_requests + 1
    /\ rpc' = [rpc EXCEPT ![r] = "check_status"]
    /\ UNCHANGED <<serveFrame, successful_requests, request_history,
                   globalVars, read_from, mine, chunks, served, sessions,
                   comm_log>>

\* front door plan_trip lines 446-464: check_agent_status has returned and
\* the handler awaits the coordination routine it chose.
route(r) ==
    /\ impl = "ag_ui_server"
    /\ rpc[r] = "check_status"
    /\ rpc' = [rpc EXCEPT ![r] = "coordinating"]
    /\ UNCHANGED <<serveFrame, fdStats, globalVars, overlap, read_from, mine,
                   chunks, served, sessions, comm_log>>

\* front door plan_trip lines 466-494: the coordination routine has
\* returned its dict (it catches every exception); a success is counted,
\* the response is stored and the request leaves active_requests.
respond(r) ==
    /\ impl = "ag_ui_server"
    /\ rpc[r] = "coordinating"
    /\ \E success \in BOOLEAN :
        /\ successful_requests' = IF success THEN successful_requests + 1
                                  ELSE successful_requests
        /\ request_history' = HistoryAfter(request_history, r, success)
        /\ served' = [served EXCEPT ![r] =
               Served(IF success THEN "success" ELSE "failure", <<>>)]
    /\ active_requests' = active_requests \ {r}
    /\ rpc' = [rpc EXCEPT ![r] = "returned"]
    /\ UNCHANGED <<serveFrame, total_requests, globalVars, overlap,
                   read_from, mine, chunks, sessions, comm_log>>

NextServe ==
    \/ startup
    \/ \E r \in Reqs : plan_trip(r)
    \/ \E r \in Reqs : initialize_agent(r)
    \/ \E r \in Reqs : get_session(r)
    \/ \E r \in Reqs : create_session(r)
    \/ \E r \in Reqs : run_async(r)
    \/ \E r \in Reqs : stream_check_agent_status(r)
    \/ \E r \in Reqs, p \in Peers : stream_log(r, p)
    \/ \E r \in Reqs : register(r)
    \/ \E r \in Reqs : route(r)
    \/ \E r \in Reqs : respond(r)

SpecServe == InitServe /\ [][NextServe]_vars

\* ------------------------------------------------------------ properties

Planners == {"a2a", "simple", "frontdoor"}
Terminal == pc \in {"done", "raised"}

\* Outcomes of a POST that are not a usable answer of the peer.
FailedReplies == {"noresult", "null", "resultnull", "notjson", "http500",
                  "refused", "timeout"}
SendFailed(p) == reply[p] \in FailedReplies

\* The front door took the direct route (the planner probe was not active).
DirectRoute == impl = "frontdoor" /\ agent_status["planner"] = "offline"

\* Entry of the communications log written last for peer p.
HasEntry(p) == \E i \in DOMAIN log : log[i].agent = p
LastEntry(p) ==
    LET idx == {i \in DOMAIN log : log[i].agent = p}
    IN  log[CHOOSE i \in idx : \A j \in idx : j <= i]

\* C1: whichever way a single peer call fails, no exception escapes
\* SimpleA2ATravelPlanner.stream or SimpleTravelPlanner.plan_trip.
C1_NoExceptionEscapes ==
    impl \in {"a2a", "simple"} => pc # "raised"

C3_AllFailedStillLLMPlan ==
    (/\ impl \in {"a2a", "simple"} \/ DirectRoute
     /\ pc \in {"done", "raised"}
     /\ \A p \in Peers : reply[p] \notin {"ok", "empty"})
        => /\ pc = "done"
           /\ plan.kind # "none"
           /\ narrative # "none"

C8_FailsOnlyOnDeadline ==
    (impl = "frontdoor" /\ pc = "done" /\ ~plan.success) =>
        /\ reply["planner"] = "timeout"
        /\ \A p \in Peers : reply[p] \notin {"ok", "empty"}
        /\ narrative \in LLMErrors

\* C8 (amended): the front door reports failure exactly when the planner's
\* health probe said active and POST /plan then did not return a 200 with a
\* JSON object (non-200 status, connection error, timeout, unusable body);
\* the direct route always returns a plan.
C8_FailsIffPlannerCallFails ==
    (impl = "frontdoor" /\ pc = "done") =>
        /\ ~plan.success <=>
              (agent_status["planner"] = "active" /\ reply["planner"] # "ok")
        /\ plan.success => plan.narrative # NoNarr
        /\ Len(request_history) = total_requests
        /\ request_history[Len(request_history)] = plan.success

C8_Witness ==
    /\ impl = "frontdoor"
    /\ pc = "done"
    /\ ~plan.success
    /\ reply["planner"] = "http500"
    /\ plan.error = "Travel planner error: 500"

C10_FinalPlanAfterAllSettled ==
    (impl \in {"a2a", "simple"} /\ plan.kind # "none") =>
        /\ inflight = {}
        /\ \A p \in Peers : sends[p] > 0 => reply[p] # "none"
        /\ \A p \in Peers : sends[p] = 1

C10_Witness ==
    /\ impl = "simple"
    /\ pc = "done"
    /\ plan.kind = "plan"
    /\ sends = [ZeroSends EXCEPT !["hotel"] = 1, !["car"] = 1]
    /\ reply["hotel"] = "http500"
    /\ reply["car"] = "empty"

\* Both envelopes of the running operation have been sent.
BothSent ==
    /\ impl \in {"a2a", "adk"}
    /\ envelope["hotel"] # NoEnvelope
    /\ envelope["car"] # NoEnvelope

\* C11: the envelope sent to the hotel agent and the envelope sent to the
\* car agent for one trip request carry the same taskId and the same
\* contextId.
C11_SameTaskAndContext ==
    BothSent =>
        /\ envelope["hotel"].taskId = envelope["car"].taskId
        /\ envelope["hotel"].contextId = envelope["car"].contextId

\* C12: no two sends carry the same messageId.
C12_MessageIdsUnique ==
    BothSent => envelope["hotel"].messageId # envelope["car"].messageId

\* Replies that arrived but are not a well-formed success.
ProtocolErrors == {"http500", "noresult", "null", "resultnull", "notjson"}

\* C16: a reply with a non-2xx status, or a 2xx reply without the
\* result/content shape, is recorded as an error for that peer and shows in
\* the plan exactly as an unreachable peer does: when the operation
\* completes, the log entry says "error" and the peer's section is the
\* placeholder.
C16_ProtocolErrorRecordedAsError ==
    (impl = "a2a" /\ pc = "done") => \A p \in Peers :
        reply[p] \in ProtocolErrors =>
            /\ HasEntry(p)
            /\ LastEntry(p).status = "error"
            /\ plan[p] = A2APlaceholder(p)

C18_ProbeNeverAuthoritative ==
    /\ (impl = "a2a" /\ pc = "done") => \A p \in Peers :
            plan.status[p] # "active" => SendFailed(p)
    /\ (impl = "frontdoor" /\ pc = "done") => sends["planner"] = 1
    /\ (impl = "adk" /\ adk_target \in AgentNames) =>
            ~(pc = "adk_raised" /\ exc = "ValueError")

\* C18 (amended): a failed probe never keeps stream, plan_trip or the front
\* door's direct route from sending to a capability peer, but the probe is
\* what stream reports in the status lines, the front door's probe of the
\* planner decides whether the planner is asked at all, and
\* TravelPlannerAgent sends only to peers whose discovery succeeded.
C18_ProbeOnlyReportsAndRoutes ==
    /\ (impl \in {"a2a", "simple"} /\ pc = "done") =>
            \A p \in Peers : sends[p] = 1
    /\ (impl = "a2a" /\ pc = "done") =>
            \A p \in Peers : plan.status[p] = agent_status[p]
    /\ (impl = "frontdoor" /\ pc = "done") =>
            /\ sends["planner"] = 1 <=> agent_status["planner"] = "active"
            /\ sends["planner"] = 0 =>
                  /\ sends["hotel"] = 1
                  /\ sends["car"] = 1 <=> car_needed
            /\ sends["planner"] = 1 => sends["hotel"] = 0 /\ sends["car"] = 0
    /\ impl = "adk" => \A p \in Peers : sends[p] > 0 => discovery[p] = "ok"

C18_Witness ==
    /\ impl = "a2a"
    /\ pc = "done"
    /\ agent_status["hotel"] = "unknown"
    /\ reply["hotel"] = "ok"
    /\ plan.hotel = "hotel_content"
    /\ plan.status["hotel"] = "unknown"

\* C19: each send to a peer issues exactly one HTTP POST, whatever the
\* outcome.
C19_OnePostPerSend ==
    /\ \A a \in Agents : posts[a] = sends[a]
    /\ (impl \in Planners /\ Terminal) =>
            \A a \in Agents : reply[a] # "none" => posts[a] = 1

C19_Witness ==
    /\ impl = "a2a"
    /\ pc = "done"
    /\ reply["hotel"] = "timeout"
    /\ reply["car"] = "http500"
    /\ posts["hotel"] = 1
    /\ posts["car"] = 1

\* C13: what the /a2a/message handler decodes from a payload built by
\* send_a2a_message equals what the sender put in: messageId, taskId,
\* contextId, role, and the text handed to the capability agent, for every
\* text.
C13_EncodeDecodeRoundTrip ==
    (impl = "handler" /\ pc = "answered" /\ sent # NoSent) =>
        /\ http_status = "200"
        /\ decoded.messageId = sent.messageId
        /\ decoded.taskId = sent.taskId
        /\ decoded.contextId = sent.contextId
        /\ decoded.role = sent.role
        /\ message_text = sent.text

\* The texts of the parts of text kind, in order, joined by one space.
RECURSIVE JoinTexts(_)
JoinTexts(parts) ==
    IF Len(parts) = 0 THEN <<>>
    ELSE IF Head(parts).type \notin {"text", "absent"}
         THEN JoinTexts(Tail(parts))
    ELSE LET rest == SelectSeq(Tail(parts),
                               LAMBDA q : q.type \in {"text", "absent"})
         IN  IF Len(rest) = 0 THEN Head(parts).text
             ELSE Head(parts).text \o <<" ">> \o JoinTexts(Tail(parts))

\* C14: the task text is the texts of the parts of text kind, in their
\* order, joined by one space (outer whitespace aside, which the handler
\* strips); a part of another kind is ignored and does not make the
\* request fail.
C14_TextPartsJoinedOthersIgnored ==
    (/\ impl = "handler"
     /\ pc = "answered"
     /\ request.missing = {}
     /\ \A i \in DOMAIN request.parts :
           request.parts[i].type \in {"text", "absent"}
               => request.parts[i].text # NoText) =>
        /\ http_status = "200"
        /\ message_text = strip(JoinTexts(request.parts))

\* C15: a body that lacks a required field, or whose parts list is empty,
\* is rejected and the capability agent is not invoked.
C15_MalformedRejected ==
    (/\ impl = "handler"
     /\ pc = "answered"
     /\ request.missing # {} \/ Len(request.parts) = 0) =>
        /\ http_status # "200"
        /\ invoked = 0

\* Extraction output that is not a complete JSON object.
InvalidExtraction(out) ==
    \/ out.kind \in {"text", "array", "scalar", "null"}
    \/ out.kind = "object" /\ \E f \in Fields : out.fields[f] = "absent"

\* C20: when the extraction output is unparseable, is not an object or
\* lacks fields, process_request goes on to the search with the fixed
\* default for every parameter it has no value for (for hotels the category
\* "any") and does not end in an error.
C20_InvalidExtractionFallsBack ==
    (impl = "capability" /\ pc = "returned"
        /\ InvalidExtraction(llm_output)) =>
        /\ search_called
        /\ cap_response.kind = "final"
        /\ \A f \in Fields \ {"category"} :
              (llm_output.kind # "object" \/ llm_output.fields[f] = "absent")
                  => search_args[f] = DefaultValue(peer_agent, f)
        /\ (peer_agent = "hotel"
              /\ (llm_output.kind # "object"
                    \/ llm_output.fields["category"] = "absent"))
              => search_args["category"] = "any"

\* Outcomes of the search call in which the search collaborator failed.
SearchFailures == {"nokey", "failed"}

\* C21: when the search fails (API key missing, network error, non-2xx)
\* the value process_request returns is an error, never the normal final
\* response, and the search was called once.
C21_SearchFailureIsError ==
    (impl = "capability" /\ pc = "returned"
        /\ search_outcome \in SearchFailures) =>
        /\ cap_response.kind = "error"
        /\ searches = 1

\* The probe found peer p up.
ProbedHealthy(p) == agent_status[p] \in {"active", "running"}

\* C22: when both peers were found up and both answer the planner's send
\* as a healthy peer does, the operation completes with a populated hotel
\* result and a populated car result (in the plan for stream, in the plan
\* prompt for plan_trip), and stream's plan reports both peers active.
C22_HealthyPeersPopulatePlan ==
    (/\ impl \in {"a2a", "simple"}
     /\ Terminal
     /\ \A p \in Peers : ProbedHealthy(p) /\ reply[p] \in HealthyReplies(impl))
        => /\ pc = "done"
           /\ impl = "a2a" => \A p \in Peers :
                 /\ plan[p] = Content(p)
                 /\ plan.status[p] = "active"
           /\ impl = "simple" => \A p \in Peers :
                 plan_prompt[p] = Content(p)

\* C27: when car_needed is false no request is made to the car agent
\* during the operation, on the direct route and on the route through the
\* planner.
C27_NoCarRequestUnlessNeeded ==
    (impl = "frontdoor" /\ ~car_needed) => car_contacts = 0

\* C23: concurrent planning operations are isolated: no planning
\* operation reads state written by a planning operation it runs
\* concurrently with.
C23_ConcurrentOperationsIsolated ==
    \A r \in Reqs : read_from[r] \cap overlap[r] = {}

\* C25: the plan returned by POST /plan is the concatenation, in order, of
\* the content of the chunks whose is_task_complete is true, for each
\* planner executor.  (CollectComplete is that concatenation: a chunk it
\* skips for its empty content adds nothing to it.)
C25_PlanIsConcatenationOfCompleteChunks ==
    \A r \in Reqs :
        (impl \in PlannerExecutors /\ served[r].status = "200") =>
            served[r].plan = CollectComplete(chunks[r])

\* Entries of request_history that belong to request r.
HistoryOf(r) ==
    {i \in DOMAIN request_history : request_history[i].id = r}

\* C28: the front door's bookkeeping is consistent over every interleaving
\* of plan_trip calls: each call that was counted in total_requests has,
\* when it returns, exactly one response in request_history and no entry
\* in active_requests, and successful_requests never exceeds
\* total_requests.
C28_BookkeepingConsistent ==
    impl = "ag_ui_server" =>
        /\ successful_requests <= total_requests
        /\ total_requests = Cardinality({r \in Reqs : rpc[r] # "idle"})
        /\ \A r \in Reqs :
            /\ rpc[r] = "returned" =>
                  /\ Cardinality(HistoryOf(r)) = 1
                  /\ r \notin active_requests
            /\ Running(r) => HistoryOf(r) = {} /\ r \in active_requests
            /\ rpc[r] = "idle" => HistoryOf(r) = {} /\ r \notin active_requests

\* C28's case: two calls have returned, one with success and one without.
C28_Witness ==
    /\ impl = "ag_ui_server"
    /\ \E r, q \in Reqs :
        /\ rpc[r] = "returned" /\ served[r].status = "success"
        /\ rpc[q] = "returned" /\ served[q].status = "failure"
    /\ total_requests = 2
    /\ successful_requests = 1
    /\ Len(request_history) = 2

C30_StreamLogsHotelThenCar ==
    \A r \in Reqs :
        (/\ impl = "simple_a2a_executor"
         /\ rpc[r] = "returned"
         /\ mine[r] # None) =>
            \E i, j \in DOMAIN comm_log :
                /\ i < j
                /\ comm_log[i] = Entry(r, "hotel")
                /\ comm_log[j] = Entry(r, "car")

\* The positions of snippet t where a "$" is followed by a digit.
DollarDigit(t) ==
    {i \in 1..Len(t) : t[i] = "$" /\ i < Len(t) /\ t[i + 1] \in Digits}

\* u has the form of the number of the pattern: digits, then possibly one
\* separator and possibly more digits.
IsDollarNumber(u) ==
    \E a \in 1..Len(u) :
        /\ \A k \in 1..a : u[k] \in Digits
        /\ \/ a = Len(u)
           \/ /\ u[a + 1] \in Separators
              /\ \A k \in (a + 2)..Len(u) : u[k] \in Digits

C26_CompleteOnlyWhenCompleted ==
    (impl = "car_agent" /\ pc = "responded") =>
        LET sr == structured_response
            completed == sr.t = "ResponseFormat" /\ sr.status = "completed"
        IN  /\ agent_response.is_task_complete <=> completed
            /\ ~completed => /\ ~agent_response.is_task_complete
                             /\ agent_response.require_user_input

\* C26's case: a wrongly typed structured response that says completed.
C26_Witness ==
    /\ impl = "car_agent"
    /\ pc = "responded"
    /\ structured_response.t = "dict"
    /\ structured_response.status = "completed"
    /\ ~agent_response.is_task_complete
    /\ agent_response.require_user_input

====
